---- MODULE Spec2Model ----
\* Model of golang.org/x/pkgsite-metrics/internal/govulncheck:
\* finding normalisation, work versions, Result rows, the work-state
\* lookup and the scanner subprocess runner.
EXTENDS FiniteSets, Integers, Sequences, TLC

VARIABLES
    finding,     \* argument of ConvertGovulncheckFinding
    convOut,     \* outcome of ConvertGovulncheckFinding
    v1, v2,      \* operands of WorkVersion.Equal (pointers)
    equalOut,    \* result of v1.Equal(v2)
    vr,          \* a Result under construction
    table,       \* rows of the govulncheck table, in insertion order
    query,       \* arguments of the last ReadWorkState call
    ws,          \* result of the last ReadWorkState call
    pc,          \* position of the worker
    cmd,         \* the scanner subprocess
    stdOut,      \* captured standard output (message stream)
    stdErr,      \* captured standard error
    stats,       \* the *ScanStats passed to RunGovulncheckCmd
    start,       \* time.Now() taken before Run
    now,         \* wall clock
    decoderIn,   \* what was handed to HandleJSON, if anything
    ret,         \* values returned by RunGovulncheckCmd
    sbOutput,    \* argument of UnmarshalSandboxResponse
    sbRet        \* values returned by UnmarshalSandboxResponse

vars == <<finding, convOut, v1, v2, equalOut, vr, table, query, ws, pc, cmd,
          stdOut, stdErr, stats, start, now, decoderIn, ret, sbOutput, sbRet>>

convVars == <<finding, convOut>>
wvVars == <<v1, v2, equalOut>>
tableVars == <<table, query, ws>>
runVars == <<pc, cmd, stdOut, stdErr, stats, start, now, decoderIn, ret,
             sbOutput, sbRet>>

\* ---------------------------------------------------------------- bounds
MaxTrace == 2
MaxSec == 1
MaxNsec == 1
MaxVulns == 2
MaxRows == 2
MaxTime == 1
MaxMsgs == 2
MaxClock == 2
MaxRSS == 1

\* ---------------------------------------------------------------- helpers
\* A Go pointer (or error, or any nilable value): <<>> is nil, <<x>> points to x.
Nil == <<>>
Ptr(x) == <<x>>
Deref(p) == p[1]

SeqsUpTo(S, n) == UNION {[1..k -> S] : k \in 0..n}

\* ---------------------------------------------------------------- findings
Frame ==
    [Module : {"stdlib", "example.com/m"},
     Version : {"v1.2.0", "v1.3.0"},
     Package : {"net/http", "example.com/m/pkg"},
     Function : {"", "Get"}]

OSVIds == {"GO-2023-0001", "GO-2023-0002"}

\* Trace is a []*Frame: an element is a pointer to a frame, or nil (what
\* encoding/json builds from a null element).
FramePtr == {Nil} \cup {Ptr(fr) : fr \in Frame}

Finding == [OSV : OSVIds, Trace : SeqsUpTo(FramePtr, MaxTrace)]

\* The argument of ConvertGovulncheckFinding is a *Finding.
FindingPtr == {Nil} \cup {Ptr(f) : f \in Finding}

Vuln ==
    [ID : OSVIds,
     PackagePath : {"net/http", "example.com/m/pkg"},
     ModulePath : {"stdlib", "example.com/m"},
     Version : {"v1.2.0", "v1.3.0"},
     Called : BOOLEAN]

\* A run-time panic: the call does not return.
Panic(text) == [panic |-> TRUE, error |-> text, vuln |-> Nil]

Returns(vuln) == [panic |-> FALSE, error |-> "", vuln |-> Ptr(vuln)]

\* Variant: reads the last frame of the trace (the entry point) instead of
\* the first.
ConvertGovulncheckFinding_LastFrame(f) ==
    IF f = Nil
    THEN Panic("nil pointer dereference")
    ELSE IF Len(Deref(f).Trace) = 0
    THEN Panic("index out of range")
    ELSE IF Deref(f).Trace[Len(Deref(f).Trace)] = Nil
    THEN Panic("nil pointer dereference")
    ELSE LET frame == Deref(Deref(f).Trace[Len(Deref(f).Trace)])
         IN Returns([ID |-> Deref(f).OSV,
                     PackagePath |-> frame.Package,
                     ModulePath |-> frame.Module,
                     Version |-> frame.Version,
                     Called |-> frame.Function # ""])

\* Variant: guards the empty trace and returns a Vuln that has only the id.
ConvertGovulncheckFinding_GuardedEmpty(f) ==
    IF f = Nil
    THEN Panic("nil pointer dereference")
    ELSE IF Len(Deref(f).Trace) = 0
    THEN Returns([ID |-> Deref(f).OSV, PackagePath |-> "", ModulePath |-> "",
                  Version |-> "", Called |-> FALSE])
    ELSE IF Deref(f).Trace[1] = Nil
    THEN Panic("nil pointer dereference")
    ELSE LET frame == Deref(Deref(f).Trace[1])
         IN Returns([ID |-> Deref(f).OSV,
                     PackagePath |-> frame.Package,
                     ModulePath |-> frame.Module,
                     Version |-> frame.Version,
                     Called |-> frame.Function # ""])

\* f.Trace on a nil f, f.Trace[0] on an empty slice and vulnerableFrame.Package
\* on a nil first frame are run-time panics.
ConvertGovulncheckFinding(f) ==
    IF f = Nil
    THEN Panic("nil pointer dereference")
    ELSE IF Len(Deref(f).Trace) = 0
    THEN Panic("index out of range")
    ELSE IF Deref(f).Trace[1] = Nil
    THEN Panic("nil pointer dereference")
    ELSE LET vulnerableFrame == Deref(Deref(f).Trace[1])
             vuln == [ID |-> Deref(f).OSV,
                      PackagePath |-> vulnerableFrame.Package,
                      ModulePath |-> vulnerableFrame.Module,
                      Version |-> vulnerableFrame.Version,
                      Called |-> FALSE]
         IN Returns(IF vulnerableFrame.Function # ""
                    THEN [vuln EXCEPT !.Called = TRUE]
                    ELSE vuln)

\* ---------------------------------------------------------------- work versions
\* time.Time: an instant (seconds and nanoseconds) and a location.
Time == [sec : 0..MaxSec, nsec : 0..MaxNsec, loc : {"UTC", "Local"}]

\* time.Time.Equal: same instant; the location is not compared.
TimeEqual(t, u) == t.sec = u.sec /\ t.nsec = u.nsec

WorkVersion ==
    [GoVersion : {"go1.20", "go1.21"},
     WorkerVersion : {"w1", "w2"},
     SchemaVersion : {"s1", "s2"},
     VulnDBLastModified : Time]

WorkVersionPtr == {Nil} \cup {Ptr(w) : w \in WorkVersion}

\* Variant: compares VulnDBLastModified to the second only.
Equal_WholeSeconds(p1, p2) ==
    IF p1 = Nil \/ p2 = Nil
    THEN FALSE
    ELSE /\ Deref(p1).GoVersion = Deref(p2).GoVersion
         /\ Deref(p1).WorkerVersion = Deref(p2).WorkerVersion
         /\ Deref(p1).SchemaVersion = Deref(p2).SchemaVersion
         /\ Deref(p1).VulnDBLastModified.sec = Deref(p2).VulnDBLastModified.sec

\* Variant: answers true at once when both operands are the same pointer.
Equal_SamePointer(p1, p2) ==
    IF p1 = p2
    THEN TRUE
    ELSE IF p1 = Nil \/ p2 = Nil
    THEN FALSE
    ELSE /\ Deref(p1).GoVersion = Deref(p2).GoVersion
         /\ Deref(p1).WorkerVersion = Deref(p2).WorkerVersion
         /\ Deref(p1).SchemaVersion = Deref(p2).SchemaVersion
         /\ TimeEqual(Deref(p1).VulnDBLastModified, Deref(p2).VulnDBLastModified)

Equal(p1, p2) ==
    IF p1 = Nil \/ p2 = Nil
    THEN FALSE
    ELSE /\ Deref(p1).GoVersion = Deref(p2).GoVersion
         /\ Deref(p1).WorkerVersion = Deref(p2).WorkerVersion
         /\ Deref(p1).SchemaVersion = Deref(p2).SchemaVersion
         /\ TimeEqual(Deref(p1).VulnDBLastModified, Deref(p2).VulnDBLastModified)

\* ---------------------------------------------------------------- Result
\* A Go error value: its text and what derrors.CategorizeError sees in it.
Errors ==
    {[text |-> "db unreachable", kind |-> "MISC"],
     [text |-> "context deadline exceeded", kind |-> "TIMEOUT"]}

ErrorPtr == {Nil} \cup {Ptr(e) : e \in Errors}

\* derrors.CategorizeError: a coarse classification of the error.
CategorizeError(err) == Deref(err).kind

SampleFindings ==
    {[OSV |-> "GO-2023-0001",
      Trace |-> <<Ptr([Module |-> "example.com/m", Version |-> "v1.2.0",
                       Package |-> "example.com/m/pkg", Function |-> "Get"])>>],
     [OSV |-> "GO-2023-0002",
      Trace |-> <<Ptr([Module |-> "stdlib", Version |-> "v1.3.0",
                       Package |-> "net/http", Function |-> ""])>>]}

SampleVulns ==
    {Deref(ConvertGovulncheckFinding(Ptr(f)).vuln) : f \in SampleFindings}
    \cup {[ID |-> "GO-2023-0001", PackagePath |-> "net/http",
           ModulePath |-> "stdlib", Version |-> "v1.2.0", Called |-> c] :
           c \in BOOLEAN}

\* The zero Result.
NewResult == [CreatedAt |-> 0, Error |-> "", ErrorCategory |-> "", Vulns |-> <<>>]

SetUploadTime(r, t) == [r EXCEPT !.CreatedAt = t]

AddError(r, err) ==
    IF err = Nil
    THEN r
    ELSE [r EXCEPT !.Error = Deref(err).text,
                   !.ErrorCategory = CategorizeError(err)]

\* Vulns is an exported field: the worker assigns it directly.
AssignVulns(r, vulns) == [r EXCEPT !.Vulns = vulns]

\* ---------------------------------------------------------------- table
ModulePaths == {"example.com/m", "example.com/n"}
Versions == {"v1.2.0", "v1.3.0"}

SampleWorkVersions ==
    {[GoVersion |-> "go1.20", WorkerVersion |-> "w1", SchemaVersion |-> "s1",
      VulnDBLastModified |-> [sec |-> 0, nsec |-> 0, loc |-> "UTC"]],
     [GoVersion |-> "go1.21", WorkerVersion |-> "w1", SchemaVersion |-> "s1",
      VulnDBLastModified |-> [sec |-> 0, nsec |-> 1, loc |-> "UTC"]]}

\* The work version and error category stored in a row.
SamplePayloads ==
    {[wv |-> w, cat |-> ""] : w \in SampleWorkVersions}
    \cup {[wv |-> CHOOSE w \in SampleWorkVersions : w.GoVersion = "go1.20",
           cat |-> "TIMEOUT"]}

\* The columns of a Result row that the work-state query reads.
Row ==
    {[created_at |-> t, module_path |-> m, version |-> v,
      WorkVersion |-> p.wv, error_category |-> p.cat] :
        t \in 0..MaxTime, m \in ModulePaths, v \in Versions,
        p \in SamplePayloads}

\* A string is modelled by the pieces it is made of: the double quote and
\* the stretches of text between blanks that hold no double quote.
DQ == "\""

Str(text) == IF text = "" THEN <<>> ELSE <<text>>

\* The module_path and version arguments of ReadWorkState: any strings, also
\* ones that hold a double quote.
ModulePathArgs ==
    {Str(m) : m \in ModulePaths}
    \cup {<<"example.com/m", DQ, "OR", "module_path", "=", DQ, "example.com/n">>,
          <<"example.com/m", DQ>>}

VersionArgs ==
    {Str(v) : v \in Versions}
    \cup {<<"v1.2.0", DQ, "OR", DQ, "a", DQ, "=", DQ, "a">>}

\* fmt.Sprintf(qf, table, module_path, version): the WHERE clause of the
\* query text, the arguments pasted in as they are.
WhereText(module_path, version) ==
    <<"module_path", "=", DQ>> \o module_path
        \o <<DQ, "AND", "version", "=", DQ>> \o version \o <<DQ>>

Word(w) == [str |-> FALSE, val |-> <<w>>]

\* The query engine reads the text: a double quote opens a string literal,
\* the next one closes it; a literal left open is a syntax error.
RECURSIVE Lex(_, _, _, _)
Lex(text, inStr, cur, acc) ==
    IF text = <<>>
    THEN [ok |-> ~inStr, lexemes |-> acc]
    ELSE IF Head(text) = DQ
    THEN IF inStr
         THEN Lex(Tail(text), FALSE, <<>>, Append(acc, [str |-> TRUE, val |-> cur]))
         ELSE Lex(Tail(text), TRUE, <<>>, acc)
    ELSE IF inStr
    THEN Lex(Tail(text), TRUE, Append(cur, Head(text)), acc)
    ELSE Lex(Tail(text), FALSE, <<>>, Append(acc, Word(Head(text))))

RECURSIVE Split(_, _, _, _)
Split(lexemes, sep, cur, acc) ==
    IF lexemes = <<>>
    THEN Append(acc, cur)
    ELSE IF Head(lexemes) = Word(sep)
    THEN Split(Tail(lexemes), sep, <<>>, Append(acc, cur))
    ELSE Split(Tail(lexemes), sep, Append(cur, Head(lexemes)), acc)

Columns == {"module_path", "version"}

\* A comparison is  operand = operand,  an operand a string literal or a
\* column.
IsComparison(c) ==
    /\ Len(c) = 3
    /\ c[2] = Word("=")
    /\ \A k \in {1, 3} : c[k].str \/ c[k].val[1] \in Columns

\* The condition as the engine parses it: comparisons joined by AND, these
\* joined by OR (AND binds tighter); ok is false on a syntax error.
ParseWhere(text) ==
    LET l == Lex(text, FALSE, <<>>, <<>>)
        ors == Split(l.lexemes, "OR", <<>>, <<>>)
        terms == [i \in DOMAIN ors |-> Split(ors[i], "AND", <<>>, <<>>)]
    IN [ok |-> /\ l.ok
               /\ \A i \in DOMAIN terms : \A j \in DOMAIN terms[i] :
                     IsComparison(terms[i][j]),
        terms |-> terms]

ValueOf(operand, row) ==
    IF operand.str THEN operand.val ELSE Str(row[operand.val[1]])

Holds(terms, row) ==
    \E i \in DOMAIN terms : \A j \in DOMAIN terms[i] :
        ValueOf(terms[i][j][1], row) = ValueOf(terms[i][j][3], row)

\* Indices of the rows selected by the WHERE clause of the query text
\*   WHERE module_path="%s" AND version="%s"
Matching(tbl, module_path, version) ==
    {i \in 1..Len(tbl) :
        Holds(ParseWhere(WhereText(module_path, version)).terms, tbl[i])}

\* ORDER BY created_at DESC LIMIT 1: the possible result sets of the query.
\* Rows with the same created_at come out in an unspecified order.
QueryRows(tbl, module_path, version) ==
    LET m == Matching(tbl, module_path, version)
        newest == {i \in m : \A j \in m : tbl[j].created_at <= tbl[i].created_at}
    IN IF m = {} THEN {<<>>} ELSE {<<tbl[i]>> : i \in newest}

\* bigquery.ForEachRow with the callback of ReadWorkState, which assigns ws
\* and returns true (continue) on every row.
RECURSIVE ForEachRow(_, _)
ForEachRow(rows, w) ==
    IF rows = <<>>
    THEN w
    ELSE ForEachRow(Tail(rows),
                    Ptr([WorkVersion |-> Ptr(Head(rows).WorkVersion),
                         ErrorCategory |-> Head(rows).error_category]))

\* defer derrors.Wrap(&err, "ReadWorkState"): a returned error is wrapped
\* with the name of the function.
Wrap(err) ==
    IF err = Nil THEN Nil ELSE Ptr([op |-> "ReadWorkState", cause |-> Deref(err)])

\* c.Query(ctx, query) once the engine has run the job on the table tbl: the
\* possible outcomes, an error or the selected rows. qerr is the error
\* c.Query meets on a query text the engine accepts.
Query(tbl, module_path, version, qerr) ==
    LET queryErr == IF ~ParseWhere(WhereText(module_path, version)).ok
                    THEN Ptr("syntax error")
                    ELSE qerr
    IN IF queryErr # Nil
       THEN {[err |-> queryErr, rows |-> <<>>]}
       ELSE {[err |-> Nil, rows |-> rows] :
             rows \in QueryRows(tbl, module_path, version)}

\* ReadWorkState from the return of c.Query on: what it returns, given the
\* outcome of the query and the error of the row iteration.
ReadWorkState(iter, iterErr) ==
    IF iter.err # Nil
    THEN [ws |-> Nil, err |-> Wrap(iter.err)]
    ELSE IF iterErr # Nil
    THEN [ws |-> Nil, err |-> Wrap(iterErr)]
    ELSE [ws |-> ForEachRow(iter.rows, Nil), err |-> Nil]

\* ---------------------------------------------------------------- decoder
Kinds == {"config", "progress", "osv", "finding"}

\* One entry of the scanner's output stream: whether it is complete, valid
\* JSON, which of the four Message fields it populates, and its finding.
Messages ==
    {[wellformed |-> TRUE, fields |-> {k}, finding |-> Nil] :
        k \in {"config", "progress", "osv"}}
    \cup {[wellformed |-> TRUE, fields |-> {"finding"}, finding |-> Ptr(f)] :
            f \in SampleFindings}
    \cup {[wellformed |-> TRUE, fields |-> {}, finding |-> Nil],
          [wellformed |-> TRUE, fields |-> {"progress", "finding"},
           finding |-> Ptr(CHOOSE f \in SampleFindings : TRUE)],
          [wellformed |-> FALSE, fields |-> {}, finding |-> Nil]}

\* The metrics handler keeps the findings and drops every other message.
NewMetricsHandler == <<>>

Handle(handler, m) ==
    IF m.fields = {"finding"} THEN Append(handler, Deref(m.finding)) ELSE handler

Findings(handler) == handler

\* Decodes the stream message by message, in order, handing each message to
\* the handler; stops at the first message that cannot be decoded.
RECURSIVE HandleJSON(_, _)
HandleJSON(from, to) ==
    IF from = <<>>
    THEN [err |-> Nil, handler |-> to]
    ELSE IF ~Head(from).wellformed
    THEN [err |-> Ptr("TruncatedStreamError"), handler |-> to]
    ELSE IF Cardinality(Head(from).fields) # 1
    THEN [err |-> Ptr("MalformedMessageError"), handler |-> to]
    ELSE HandleJSON(Tail(from), Handle(to, Head(from)))

\* ---------------------------------------------------------------- runner
ExitStatuses == {0, 1, 2}
ErrTexts == {"db unreachable", "panic: runtime error"}

NoCmd == [state |-> "none", hangs |-> FALSE, status |-> 0, rusage |-> Nil]
ZeroStats == [ScanSeconds |-> 0, ScanMemory |-> 0]

\* The default getMemoryUsage returns 0; the Linux one reads the peak
\* memory from the resource usage of the finished process.
getMemoryUsage(c) == IF c.rusage = Nil THEN 0 ELSE Deref(c.rusage)

\* govulncheckCmd.Run() returns an error when the process could not be
\* started or exited with a non-zero status.
RunErr(c) == c.state = "failed" \/ c.status # 0

\* Variant: decodes the captured output before looking at the error of Run().
RunGovulncheckCmd_DecodeFirst(c, out, errText, st, t0, t1) ==
    LET st2 == [ScanSeconds |-> t1 - t0, ScanMemory |-> getMemoryUsage(c)]
        h == HandleJSON(out, NewMetricsHandler)
    IN IF RunErr(c)
       THEN [findings |-> <<>>, err |-> Ptr(errText), stats |-> st,
             decoderIn |-> Ptr(out)]
       ELSE IF h.err # Nil
       THEN [findings |-> <<>>, err |-> h.err, stats |-> st2,
             decoderIn |-> Ptr(out)]
       ELSE [findings |-> Findings(h.handler), err |-> Nil, stats |-> st2,
             decoderIn |-> Ptr(out)]

\* Variant: returns the findings decoded so far along with a decoding error.
RunGovulncheckCmd_KeepsFindings(c, out, errText, st, t0, t1) ==
    IF RunErr(c)
    THEN [findings |-> <<>>, err |-> Ptr(errText), stats |-> st,
          decoderIn |-> Nil]
    ELSE LET st2 == [ScanSeconds |-> t1 - t0, ScanMemory |-> getMemoryUsage(c)]
             h == HandleJSON(out, NewMetricsHandler)
         IN [findings |-> Findings(h.handler), err |-> h.err, stats |-> st2,
             decoderIn |-> Ptr(out)]

\* RunGovulncheckCmd from the return of govulncheckCmd.Run() on: the
\* returned findings and error, the stats and what the decoder was given.
RunGovulncheckCmd(c, out, errText, st, t0, t1) ==
    IF RunErr(c)
    THEN [findings |-> <<>>, err |-> Ptr(errText), stats |-> st,
          decoderIn |-> Nil]
    ELSE LET st2 == [ScanSeconds |-> t1 - t0, ScanMemory |-> getMemoryUsage(c)]
             h == HandleJSON(out, NewMetricsHandler)
         IN IF h.err # Nil
            THEN [findings |-> <<>>, err |-> h.err, stats |-> st2,
                  decoderIn |-> Ptr(out)]
            ELSE [findings |-> Findings(h.handler), err |-> Nil, stats |-> st2,
                  decoderIn |-> Ptr(out)]

\* The output of a sandboxed run: whether it is valid JSON, whether its
\* members have the types of SandboxResponse, and its members.
Outputs ==
    [valid : BOOLEAN, typed : BOOLEAN, Error : {""} \cup ErrTexts,
     Findings : SeqsUpTo(SampleFindings, 1), Stats : {ZeroStats}]

UnmarshalSandboxResponse(output) ==
    IF ~output.valid
    THEN [res |-> Nil, err |-> Ptr("invalid JSON")]
    ELSE IF output.Error # ""
    THEN [res |-> Nil, err |-> Ptr(output.Error)]
    ELSE IF ~output.typed
    THEN [res |-> Nil, err |-> Ptr("cannot unmarshal")]
    ELSE [res |-> Ptr([Findings |-> output.Findings, Stats |-> output.Stats]),
          err |-> Nil]

\* ---------------------------------------------------------------- states at rest
ConvRest == finding = Nil /\ convOut = Nil
WVRest == v1 = Nil /\ v2 = Nil /\ equalOut = Nil
ResultRest == vr = NewResult
TableRest == table = <<>> /\ query = Nil /\ ws = Nil
RunRest ==
    /\ pc = "idle"
    /\ cmd = NoCmd
    /\ stdOut = <<>>
    /\ stdErr = ""
    /\ stats = ZeroStats
    /\ start = 0
    /\ now = 0
    /\ decoderIn = Nil
    /\ ret = Nil
    /\ sbOutput = Nil
    /\ sbRet = Nil

\* ---------------------------------------------------------------- Finding Normalizer
InitConv ==
    /\ finding \in FindingPtr
    /\ convOut = Nil
    /\ WVRest /\ ResultRest /\ TableRest /\ RunRest

Convert ==
    /\ convOut = Nil
    /\ convOut' = Ptr(ConvertGovulncheckFinding(finding))
    /\ UNCHANGED <<finding, wvVars, vr, tableVars, runVars>>

NextConv == Convert

SpecConv == InitConv /\ [][NextConv]_vars

\* ---------------------------------------------------------------- Work-Version Tracker
InitWV ==
    /\ v1 \in WorkVersionPtr
    /\ v2 \in WorkVersionPtr
    /\ equalOut = Nil
    /\ ConvRest /\ ResultRest /\ TableRest /\ RunRest

\* v1.Equal(v2), v2.Equal(v1), v1.Equal(v1) and v2.Equal(v2).
CallEqual ==
    /\ equalOut = Nil
    /\ equalOut' = Ptr([v1v2 |-> Equal(v1, v2), v2v1 |-> Equal(v2, v1),
                        v1v1 |-> Equal(v1, v1), v2v2 |-> Equal(v2, v2)])
    /\ UNCHANGED <<v1, v2, convVars, vr, tableVars, runVars>>

NextWV == CallEqual

SpecWV == InitWV /\ [][NextWV]_vars

\* ---------------------------------------------------------------- Result Aggregator
InitResult ==
    /\ vr = NewResult
    /\ ConvRest /\ WVRest /\ TableRest /\ RunRest

DoAssignVulns(vulns) ==
    /\ vr' = AssignVulns(vr, vulns)
    /\ UNCHANGED <<convVars, wvVars, tableVars, runVars>>

DoAddError(err) ==
    /\ vr' = AddError(vr, err)
    /\ UNCHANGED <<convVars, wvVars, tableVars, runVars>>

DoSetUploadTime(t) ==
    /\ vr' = SetUploadTime(vr, t)
    /\ UNCHANGED <<convVars, wvVars, tableVars, runVars>>

NextResult ==
    \/ \E vulns \in SeqsUpTo(SampleVulns, MaxVulns) : DoAssignVulns(vulns)
    \/ \E err \in ErrorPtr : DoAddError(err)
    \/ \E t \in 0..MaxTime : DoSetUploadTime(t)

SpecResult == InitResult /\ [][NextResult]_vars

\* ---------------------------------------------------------------- table and work-state lookup
InitTable ==
    /\ TableRest
    /\ ConvRest /\ WVRest /\ ResultRest /\ RunRest

\* A scan attempt's row is appended to the table; rows are never changed.
Upload(row) ==
    /\ Len(table) < MaxRows
    /\ table' = Append(table, row)
    /\ UNCHANGED <<query, ws, convVars, wvVars, vr, runVars>>

\* ReadWorkState is called: the query text is built and handed to c.Query,
\* where the worker waits for the engine. One lookup is followed; other
\* workers append rows before, during and after it.
CallReadWorkState(module_path, version) ==
    /\ query = Nil
    /\ query' = Ptr([module_path |-> module_path, version |-> version,
                     state |-> "querying", rows |-> 0,
                     iter |-> [err |-> Nil, rows |-> <<>>]])
    /\ UNCHANGED <<table, ws, convVars, wvVars, vr, runVars>>

\* The engine runs the query job on the table as it is at that moment (a
\* row is either wholly there or not), or c.Query fails.
QueryJobRuns(qerr) ==
    /\ query # Nil
    /\ Deref(query).state = "querying"
    /\ \E r \in Query(table, Deref(query).module_path, Deref(query).version,
                       qerr) :
          query' = Ptr([Deref(query) EXCEPT !.state = "iterating",
                                            !.rows = Len(table),
                                            !.iter = r])
    /\ UNCHANGED <<table, ws, convVars, wvVars, vr, runVars>>

\* c.Query has returned: the rows are fetched and ReadWorkState returns.
ReadWorkStateReturns(iterErr) ==
    /\ query # Nil
    /\ Deref(query).state = "iterating"
    /\ ws' = Ptr(ReadWorkState(Deref(query).iter, iterErr))
    /\ query' = Ptr([Deref(query) EXCEPT !.state = "returned"])
    /\ UNCHANGED <<table, convVars, wvVars, vr, runVars>>

NextTable ==
    \/ \E row \in Row : Upload(row)
    \/ \E module_path \in ModulePathArgs, version \in VersionArgs :
          CallReadWorkState(module_path, version)
    \/ \E qerr \in {Nil, Ptr("query failed")} : QueryJobRuns(qerr)
    \/ \E iterErr \in {Nil, Ptr("iteration failed")} :
          ReadWorkStateReturns(iterErr)

SpecTable == InitTable /\ [][NextTable]_vars

\* ---------------------------------------------------------------- Scan Runner
InitRun ==
    /\ RunRest
    /\ ConvRest /\ WVRest /\ ResultRest /\ TableRest

others == <<convVars, wvVars, vr, tableVars>>

\* RunGovulncheckCmd up to govulncheckCmd.Run(): the buffers are empty, the
\* clock is read and the subprocess is started (or fails to start). The
\* worker then waits in Run() for the subprocess to exit.
CallRunGovulncheckCmd(started, hangs) ==
    /\ pc = "idle"
    /\ pc' = "waiting"
    /\ stdOut' = <<>>
    /\ stdErr' = ""
    /\ start' = now
    /\ cmd' = [NoCmd EXCEPT !.state = IF started THEN "running" ELSE "failed",
                            !.hangs = started /\ hangs]
    /\ UNCHANGED <<stats, now, decoderIn, ret, sbOutput, sbRet, others>>

\* Time passes while the subprocess runs.
Tick ==
    /\ cmd.state = "running"
    /\ now < MaxClock
    /\ now' = now + 1
    /\ UNCHANGED <<pc, cmd, stdOut, stdErr, stats, start, decoderIn, ret,
                   sbOutput, sbRet, others>>

\* The subprocess writes a message to its standard output.
ProcEmit(m) ==
    /\ cmd.state = "running"
    /\ Len(stdOut) < MaxMsgs
    /\ stdOut' = Append(stdOut, m)
    /\ UNCHANGED <<pc, cmd, stdErr, stats, start, now, decoderIn, ret,
                   sbOutput, sbRet, others>>

\* The subprocess writes to its standard error.
ProcWriteErr(text) ==
    /\ cmd.state = "running"
    /\ stdErr = ""
    /\ stdErr' = text
    /\ UNCHANGED <<pc, cmd, stdOut, stats, start, now, decoderIn, ret,
                   sbOutput, sbRet, others>>

\* The subprocess exits, unless it is one that never does.
ProcExit(status, rusage) ==
    /\ cmd.state = "running"
    /\ ~cmd.hangs
    /\ cmd' = [cmd EXCEPT !.state = "exited", !.status = status,
                          !.rusage = rusage]
    /\ UNCHANGED <<pc, stdOut, stdErr, stats, start, now, decoderIn, ret,
                   sbOutput, sbRet, others>>

\* govulncheckCmd.Run() returns and RunGovulncheckCmd runs to its return.
RunReturns ==
    /\ pc = "waiting"
    /\ cmd.state \in {"exited", "failed"}
    /\ LET r == RunGovulncheckCmd(cmd, stdOut, stdErr, stats, start, now)
       IN /\ stats' = r.stats
          /\ decoderIn' = r.decoderIn
          /\ ret' = Ptr([findings |-> r.findings, err |-> r.err])
    /\ pc' = "done"
    /\ UNCHANGED <<cmd, stdOut, stdErr, start, now, sbOutput, sbRet, others>>

\* The sandboxed path: the worker decodes the output of a sandboxed run.
CallUnmarshalSandboxResponse(output) ==
    /\ pc = "idle"
    /\ pc' = "done"
    /\ sbOutput' = Ptr(output)
    /\ sbRet' = Ptr(UnmarshalSandboxResponse(output))
    /\ UNCHANGED <<cmd, stdOut, stdErr, stats, start, now, decoderIn, ret,
                   others>>

AnyProcExit ==
    \E status \in ExitStatuses, rusage \in {Nil} \cup {Ptr(k) : k \in 1..MaxRSS} :
        ProcExit(status, rusage)

NextRun ==
    \/ \E started \in BOOLEAN, hangs \in BOOLEAN :
          CallRunGovulncheckCmd(started, hangs)
    \/ Tick
    \/ \E m \in Messages : ProcEmit(m)
    \/ \E text \in ErrTexts : ProcWriteErr(text)
    \/ AnyProcExit
    \/ RunReturns
    \/ \E output \in Outputs : CallUnmarshalSandboxResponse(output)

SpecRun == InitRun /\ [][NextRun]_vars

\* The worker takes its next step when it can, and a subprocess that is not
\* stuck exits.
FairSpecRun ==
    /\ InitRun /\ [][NextRun]_vars
    /\ WF_vars(RunReturns)
    /\ WF_vars(AnyProcExit)

\* ================================================================ properties

\* What C1 says of a finished conversion: exactly one Vuln, built from the
\* finding's OSV id and its first trace frame.
OneVulnFromFirstFrame ==
    LET r == Deref(convOut)
        first == Deref(Head(Deref(finding).Trace))
    IN /\ ~r.panic
       /\ Len(r.vuln) = 1
       /\ Deref(r.vuln).ID = Deref(finding).OSV
       /\ Deref(r.vuln).PackagePath = first.Package
       /\ Deref(r.vuln).ModulePath = first.Module
       /\ Deref(r.vuln).Version = first.Version
       /\ Deref(r.vuln).Called = (first.Function # "")

\* C1 as stated: for every finding with a non-empty trace,
\* ConvertGovulncheckFinding returns exactly one Vuln whose ID is the
\* finding's OSV id, whose PackagePath, ModulePath and Version are those of
\* the first trace frame and whose Called flag is true iff the first frame's
\* function name is non-empty.
C1_ConvertUsesFirstFrame ==
    (convOut # Nil /\ finding # Nil /\ Len(Deref(finding).Trace) > 0)
        => OneVulnFromFirstFrame

\* C1 amended: the same for every finding with a non-empty trace whose first
\* frame is not nil; the later frames, nil or not, do not influence the
\* result.
C1_ConvertUsesFirstFrameIfPresent ==
    (/\ convOut # Nil
     /\ finding # Nil
     /\ Len(Deref(finding).Trace) > 0
     /\ Head(Deref(finding).Trace) # Nil)
        => OneVulnFromFirstFrame

\* A two-frame finding whose frames differ in every field has been converted.
C1_Witness ==
    /\ convOut # Nil
    /\ finding # Nil
    /\ Len(Deref(finding).Trace) = 2
    /\ Deref(finding).Trace[1] # Nil
    /\ Deref(finding).Trace[2] # Nil
    /\ \A fld \in {"Module", "Version", "Package", "Function"} :
          Deref(Deref(finding).Trace[1])[fld] # Deref(Deref(finding).Trace[2])[fld]
    /\ Deref(Deref(finding).Trace[1]).Function # ""
    /\ Deref(Deref(convOut).vuln).Called

\* C9: converting a finding whose trace is empty is an error condition (the
\* call panics instead of returning) and produces no Vuln.
C9_EmptyTraceNoVuln ==
    (convOut # Nil /\ finding # Nil /\ Len(Deref(finding).Trace) = 0) =>
        (Deref(convOut).panic /\ Deref(convOut).vuln = Nil)

\* A finding with an empty trace has been handed to the converter.
C9_Witness ==
    /\ convOut # Nil
    /\ finding # Nil
    /\ Deref(finding).Trace = <<>>
    /\ Deref(convOut).panic
    /\ Deref(convOut).error = "index out of range"

\* The instant a time.Time denotes.
Instant(t) == <<t.sec, t.nsec>>

\* Both operands present and the four fields equal, timestamps as instants.
FieldwiseEqual(p1, p2) ==
    /\ p1 # Nil
    /\ p2 # Nil
    /\ \A fld \in {"GoVersion", "WorkerVersion", "SchemaVersion"} :
          Deref(p1)[fld] = Deref(p2)[fld]
    /\ Instant(Deref(p1).VulnDBLastModified) = Instant(Deref(p2).VulnDBLastModified)

\* C3: v1.Equal(v2) is true exactly when both operands are non-nil and all
\* four fields are equal; a nil on either side or any differing field, also a
\* sub-second difference of VulnDBLastModified, makes it false.
C3_EqualIsFieldwise ==
    equalOut # Nil =>
        /\ Deref(equalOut).v1v2 = FieldwiseEqual(v1, v2)
        /\ (v1 = Nil \/ v2 = Nil) => ~Deref(equalOut).v1v2
        /\ (/\ v1 # Nil
            /\ v2 # Nil
            /\ Deref(v1).VulnDBLastModified.sec = Deref(v2).VulnDBLastModified.sec
            /\ Deref(v1).VulnDBLastModified.nsec # Deref(v2).VulnDBLastModified.nsec)
           => ~Deref(equalOut).v1v2

\* Two work versions that differ only by a nanosecond have been compared.
C3_Witness ==
    /\ equalOut # Nil
    /\ v1 # Nil
    /\ v2 # Nil
    /\ Deref(v1) # Deref(v2)
    /\ [Deref(v1) EXCEPT !.VulnDBLastModified.nsec = 0]
         = [Deref(v2) EXCEPT !.VulnDBLastModified.nsec = 0]
    /\ ~Deref(equalOut).v1v2

\* C4 as stated: Equal is reflexive for every operand it can be called with
\* and symmetric.
C4_ReflexiveSymmetric ==
    equalOut # Nil =>
        /\ Deref(equalOut).v1v1
        /\ Deref(equalOut).v2v2
        /\ Deref(equalOut).v1v2 = Deref(equalOut).v2v1

\* C4 amended: Equal is reflexive on non-nil operands, false on a nil operand
\* compared with itself, and symmetric on all operands.
C4_ReflexiveOnNonNilSymmetric ==
    equalOut # Nil =>
        /\ Deref(equalOut).v1v1 = (v1 # Nil)
        /\ Deref(equalOut).v2v2 = (v2 # Nil)
        /\ Deref(equalOut).v1v2 = Deref(equalOut).v2v1

\* A non-nil and a nil operand have been compared with themselves and with
\* each other.
C4_Witness ==
    /\ equalOut # Nil
    /\ v1 # Nil
    /\ v2 = Nil
    /\ Deref(equalOut).v1v1
    /\ ~Deref(equalOut).v2v2
    /\ ~Deref(equalOut).v2v1

\* C2: in every state of a Result, a non-empty Error implies an empty Vulns
\* list, whatever the order of assigning Vulns and AddError.
C2_ErrorImpliesNoVulns == vr.Error # "" => vr.Vulns = <<>>

\* The subprocess of the finished call exited with a non-zero status.
FailedExit ==
    /\ pc = "done"
    /\ ret # Nil
    /\ cmd.state = "exited"
    /\ cmd.status # 0

\* C5: when the subprocess exits with a non-zero status, RunGovulncheckCmd
\* returns an error whose text is the captured standard error, and the
\* captured standard output is not handed to the decoder.
C5_NonZeroExitReturnsStderr ==
    FailedExit => (Deref(ret).err = Ptr(stdErr) /\ decoderIn = Nil)

\* A subprocess that wrote messages and an error text exited non-zero.
C5_Witness ==
    /\ FailedExit
    /\ stdOut # <<>>
    /\ stdErr = "db unreachable"
    /\ Deref(ret).err = Ptr("db unreachable")

\* C6: whenever RunGovulncheckCmd returns an error the returned findings are
\* empty, and UnmarshalSandboxResponse returns no response, but the error,
\* when the output carries a non-empty Error.
C6_NoPartialFindings ==
    /\ (pc = "done" /\ ret # Nil /\ Deref(ret).err # Nil)
          => Deref(ret).findings = <<>>
    /\ (sbRet # Nil /\ Deref(sbOutput).valid /\ Deref(sbOutput).Error # "")
          => /\ Deref(sbRet).res = Nil
             /\ Deref(sbRet).err = Ptr(Deref(sbOutput).Error)

\* The subprocess exited with status 0 and decoding failed on the second
\* message, after a finding had been decoded from the first.
C6_Witness ==
    /\ pc = "done"
    /\ ret # Nil
    /\ cmd.status = 0
    /\ Len(stdOut) = 2
    /\ stdOut[1].wellformed
    /\ stdOut[1].fields = {"finding"}
    /\ decoderIn = Ptr(stdOut)
    /\ Deref(ret).err # Nil
    /\ Deref(ret).findings = <<>>

\* C7: a scan attempt always ends: a worker waiting for the subprocess
\* eventually gets its result, also when the subprocess never exits.
C7_ScanAttemptEnds == (pc = "waiting") ~> (pc = "done")

\* C10: after a non-zero exit the stats hold the duration measured up to the
\* failure, and memory 0 where it cannot be measured.
C10_StatsOnFailure ==
    FailedExit =>
        /\ stats.ScanSeconds = now - start
        /\ (cmd.rusage = Nil => stats.ScanMemory = 0)

\* The rows the table held when the engine ran the query of the last
\* ReadWorkState call.
Snapshot == SubSeq(table, 1, Deref(query).rows)

\* The work state ReadWorkState builds from a row.
WorkStateOf(row) ==
    Ptr([WorkVersion |-> Ptr(row.WorkVersion), ErrorCategory |-> row.error_category])

\* C8: after any sequence of appended rows, a ReadWorkState call that does
\* not fail returns the work version and error category of a row with the
\* greatest created_at among the rows whose module_path and version are
\* exactly the arguments, ignoring the rows of every other target, and nil
\* when there is no such row.
C8_ReadsNewestMatchingRow ==
    (ws # Nil /\ Deref(ws).err = Nil) =>
        LET q == Deref(query)
            same == {i \in 1..Len(Snapshot) :
                        /\ Str(Snapshot[i].module_path) = q.module_path
                        /\ Str(Snapshot[i].version) = q.version}
        IN IF same = {}
           THEN Deref(ws).ws = Nil
           ELSE \E i \in same :
                   /\ \A j \in same :
                         Snapshot[j].created_at <= Snapshot[i].created_at
                   /\ Deref(ws).ws = WorkStateOf(Snapshot[i])

====
